---------------------------- MODULE Spec2Model ----------------------------
(***************************************************************************)
(* A model of sen2mosaic's level-3A compositing wrapper                     *)
(* (src/sen2mosaic/composite.py): tile and input validation, the patching   *)
(* of sen2three's L3_GIPP.xml, the launch of the external L3_Process with   *)
(* its SIGINT pass-through and pipes, the completeness test of the output,  *)
(* and the loop of the command line over several input directories.         *)
(*                                                                          *)
(* Text (tile names, dates, paths) is a sequence of one-character strings.  *)
(***************************************************************************)
EXTENDS Integers, Sequences, FiniteSets, TLC

VARIABLES
    call,   \* the frame of a function called on its own: its name and arguments
    ret,    \* what that call returned or raised; NoRet before it has run
    argv,   \* the parsed command line of the script
    env,    \* what the script does not change: input directories, cwd, cfg
    disk,   \* the files the script and L3_Process change
    pc,     \* the position of the script
    idx,    \* the index of __main__'s loop over args.input_dir
    loc,    \* the locals of processToL3A and _runCommand
    child,  \* the external L3_Process of the current _runCommand
    exc,    \* the exception that ended the script, or NoExc
    out,    \* what main printed, in order
    hist,   \* (ghost) what happened, in order
    sig,    \* SIGINT handling of the wrapper
    inst    \* concurrent instances of processToL3A sharing one home directory

vars == <<call, ret, argv, env, disk, pc, idx, loc, child, exc, out, hist, sig, inst>>

-----------------------------------------------------------------------------
(* Text *)

NL == "\n"
Digits == {"0", "1", "2", "3", "4", "5", "6", "7", "8", "9"}
Uppers == {"A", "B", "C", "D", "E", "F", "G", "H", "I", "J", "K", "L", "M",
           "N", "O", "P", "Q", "R", "S", "T", "U", "V", "W", "X", "Y", "Z"}

\* The longest tile argument tried, and the characters it is made of: a digit,
\* an upper-case letter, the letter T, a lower-case letter and a line feed.
MaxTileLen == 7
TileChars == {"3", "K", "T", "a", NL}

RECURSIVE StringsUpTo(_, _)
StringsUpTo(chars, n) ==
    IF n = 0 THEN {<<>>}
    ELSE LET shorter == StringsUpTo(chars, n - 1)
         IN  shorter \cup {Append(s, c) : s \in {t \in shorter : Len(t) = n - 1}, c \in chars}

TileStrings == StringsUpTo(TileChars, MaxTileLen)

\* str.lstrip(c): every leading c is removed, not only the first.
RECURSIVE lstrip(_, _)
lstrip(s, c) == IF s # <<>> /\ Head(s) = c THEN lstrip(Tail(s), c) ELSE s

\* str.rstrip(c)
RECURSIVE rstrip(_, _)
rstrip(s, c) ==
    IF s # <<>> /\ s[Len(s)] = c THEN rstrip(SubSeq(s, 1, Len(s) - 1), c) ELSE s

\* Python's "$" without re.MULTILINE: the end of the string, or just before a
\* line feed that is the last character of the string.
ReDollar(s, i) == i = Len(s) + 1 \/ (i = Len(s) /\ s[i] = NL)

\* re.match("[0-9]{2}[A-Z]{3}$", s): anchored at the start of s.
ReMatchTile(s) ==
    /\ Len(s) >= 5
    /\ s[1] \in Digits /\ s[2] \in Digits
    /\ s[3] \in Uppers /\ s[4] \in Uppers /\ s[5] \in Uppers
    /\ ReDollar(s, 6)

_validateTile(tile) == ReMatchTile(tile)

\* processToL3A, lines 234-237: the tile as cleansed, and whether the assert passes.
CleanseTile(tile) == lstrip(tile, "T")
ProcessAcceptsTile(tile) == _validateTile(CleanseTile(tile))

\* The format ##XXX of the glossary, and the same with one leading T.
IsTileFormat(s) ==
    /\ Len(s) = 5
    /\ s[1] \in Digits /\ s[2] \in Digits
    /\ s[3] \in Uppers /\ s[4] \in Uppers /\ s[5] \in Uppers
IsTTileFormat(s) == Len(s) = 6 /\ s[1] = "T" /\ IsTileFormat(Tail(s))

-----------------------------------------------------------------------------
(* Values of the variables a specification does not use *)

NoRet == [kind |-> "none"]
NoCall == [fn |-> "none"]
NoExc == "none"

IdleCall == call = NoCall /\ ret = NoRet
IdleScript ==
    /\ argv = [tile |-> <<>>]
    /\ pc = "idle" /\ idx = 0 /\ loc = [tile |-> <<>>]
    /\ child = [state |-> "none"]
    /\ exc = NoExc /\ out = <<>> /\ hist = <<>>
IdleEnv == env = [cwdIsOut |-> TRUE]
IdleDisk == disk = [safes |-> {}]
IdleSig == sig = [handler |-> "default"]
IdleInst == inst = <<>>

-----------------------------------------------------------------------------
(* _validateTile and the tile test of processToL3A, called on any string *)

InitTile ==
    /\ call \in [fn : {"_validateTile", "processToL3A.tile"}, tile : TileStrings]
    /\ ret = NoRet
    /\ IdleScript /\ IdleEnv /\ IdleDisk /\ IdleSig /\ IdleInst

ValidateTileCall ==
    /\ call.fn = "_validateTile" /\ ret = NoRet
    /\ ret' = [kind |-> "value", value |-> _validateTile(call.tile)]
    /\ UNCHANGED <<call, argv, env, disk, pc, idx, loc, child, exc, out, hist, sig, inst>>

ProcessTileCall ==
    /\ call.fn = "processToL3A.tile" /\ ret = NoRet
    /\ ret' = IF ProcessAcceptsTile(call.tile)
              THEN [kind |-> "value", value |-> CleanseTile(call.tile)]
              ELSE [kind |-> "raise", value |-> "AssertionError"]
    /\ UNCHANGED <<call, argv, env, disk, pc, idx, loc, child, exc, out, hist, sig, inst>>

NextTile == ValidateTileCall \/ ProcessTileCall
SpecTile == InitTile /\ [][NextTile]_vars

\* C2: _validateTile(tile) is True exactly for two digits followed by three
\* upper-case letters and nothing else, and processToL3A accepts exactly that
\* format and the same with one leading T, treating both spellings alike, and
\* rejects every other string.
C2_TileFormatExact ==
    /\ (call.fn = "_validateTile" /\ ret.kind = "value")
          => (ret.value <=> IsTileFormat(call.tile))
    /\ (call.fn = "processToL3A.tile" /\ ret # NoRet)
          => /\ (ret.kind = "value") <=> (IsTileFormat(call.tile) \/ IsTTileFormat(call.tile))
             /\ ret.kind = "value" => IsTileFormat(ret.value)

-----------------------------------------------------------------------------
(* Dates, granules and _validateInput *)

DigitVal ==
    ("0" :> 0) @@ ("1" :> 1) @@ ("2" :> 2) @@ ("3" :> 3) @@ ("4" :> 4) @@
    ("5" :> 5) @@ ("6" :> 6) @@ ("7" :> 7) @@ ("8" :> 8) @@ ("9" :> 9)

\* int(s) of a string of decimal digits
RECURSIVE ParseInt(_)
ParseInt(s) ==
    IF s = <<>> THEN 0
    ELSE 10 * ParseInt(SubSeq(s, 1, Len(s) - 1)) + DigitVal[s[Len(s)]]

\* datetime.datetime.strptime(s, '%Y%m%d'): year, month and day; two datetimes
\* compare by year, then month, then day.
strptime(s) ==
    [year |-> ParseInt(SubSeq(s, 1, 4)), month |-> ParseInt(SubSeq(s, 5, 6)),
     day |-> ParseInt(SubSeq(s, 7, 8))]
DateLE(a, b) ==
    \/ a.year < b.year
    \/ a.year = b.year /\ a.month < b.month
    \/ a.year = b.year /\ a.month = b.month /\ a.day <= b.day

\* The acquisition dates tried, in chronological order.
DateList ==
    << <<"2", "0", "1", "6", "1", "2", "3", "1">>,
       <<"2", "0", "1", "7", "0", "1", "3", "1">>,
       <<"2", "0", "1", "7", "0", "2", "0", "1">>,
       <<"2", "0", "1", "7", "1", "0", "0", "9">>,
       <<"2", "0", "1", "8", "0", "1", "0", "1">> >>
DateIndex(d) == CHOOSE i \in 1..Len(DateList) : DateList[i] = d

Tile36KWA == <<"3", "6", "K", "W", "A">>
Tile36KWB == <<"3", "6", "K", "W", "B">>

R10m == <<"R", "1", "0", "m">>
R20m == <<"R", "2", "0", "m">>
R60m == <<"R", "6", "0", "m">>
ResDirSets == {{}, {R10m}, {R20m, R60m}, {R10m, R20m}, {R10m, R20m, R60m}}

\* A level-2A granule <input_dir>/S2?_MSIL2A_*.SAFE/GRANULE/L2A_T<tile>_A..._<sensing>T...
\* with the directories IMG_DATA/R*m it holds.
Granules ==
    [tile : {Tile36KWA}, sensing : {DateList[i] : i \in 1..Len(DateList)}, resdirs : ResDirSets]
    \cup [tile : {Tile36KWB}, sensing : {DateList[3]}, resdirs : {{}, {R10m, R20m, R60m}}]

\* The most granules an input directory holds.
MaxGranules == 2

RECURSIVE SetsUpTo(_, _)
SetsUpTo(U, n) ==
    IF n = 0 THEN {{}}
    ELSE LET smaller == SetsUpTo(U, n - 1)
         IN  smaller \cup {S \cup {x} : S \in smaller, x \in U}

\* infile.split('/')[-1].split('_')[-1].split('T')[0], parsed: line 84-86
_getDate(infile) == strptime(infile.sensing)

\* int(i.split('/')[-1].lstrip('R').rstrip('m')) of every IMG_DATA/R*m: line 99-103
_getResolutions(infile) == {ParseInt(rstrip(lstrip(d, "R"), "m")) : d \in infile.resdirs}

\* glob '%s/S2?_MSIL2A_*.SAFE/GRANULE/*T%s*': the granules of input_dir whose
\* name holds T<tile>
GlobGranules(dir, tile) == {g \in dir : g.tile = tile}

\* (mutant) the end of the range compared with < in place of <=
InDateRangeExclusiveEnd(d, start, end) ==
    DateLE(strptime(start), d) /\ ~DateLE(strptime(end), d)

\* The dates of line 127, both bounds with <= and >=.
InDateRange(d, start, end) == DateLE(strptime(start), d) /\ DateLE(d, strptime(end))

ValidResList(resolution) == IF resolution = 0 THEN {10, 20, 60} ELSE {resolution}

\* _validateInput: "ok", or the assertion that failed, in the order of the code.
_validateInput(tile, dir, start, end, resolution) ==
    LET infiles == GlobGranules(dir, tile)
        valid == {g \in infiles : InDateRange(_getDate(g), start, end)}
    IN  IF ~(Cardinality(infiles) >= 1) THEN "assert_infiles"
        ELSE IF ~(Cardinality(valid) > 0) THEN "assert_dates"
        ELSE IF \E g \in valid : \E r \in ValidResList(resolution) : r \notin _getResolutions(g)
             THEN "assert_file_resolution"
        ELSE "ok"

InitInput ==
    /\ call \in [fn : {"_validateInput"}, tile : {Tile36KWA},
                 dir : SetsUpTo(Granules, MaxGranules),
                 start : {DateList[2]}, end : {DateList[2], DateList[4]},
                 resolution : {0, 10, 20, 60}]
    /\ ret = NoRet
    /\ IdleScript /\ IdleEnv /\ IdleDisk /\ IdleSig /\ IdleInst

ValidateInputCall ==
    /\ call.fn = "_validateInput" /\ ret = NoRet
    /\ LET r == _validateInput(call.tile, call.dir, call.start, call.end, call.resolution)
       IN  ret' = IF r = "ok" THEN [kind |-> "value", value |-> "None"]
                  ELSE [kind |-> "raise", value |-> r]
    /\ UNCHANGED <<call, argv, env, disk, pc, idx, loc, child, exc, out, hist, sig, inst>>

NextInput == ValidateInputCall
SpecInput == InitInput /\ [][NextInput]_vars

\* What C8 requires, stated on the names of the files: the position of the
\* sensing date in the chronological list, the R*m directories present.
RequiredDirs(resolution) ==
    IF resolution = 0 THEN {R10m, R20m, R60m}
    ELSE IF resolution = 10 THEN {R10m}
    ELSE IF resolution = 20 THEN {R20m}
    ELSE {R60m}
OfTileInRange(c) ==
    {g \in c.dir : /\ g.tile = c.tile
                   /\ DateIndex(c.start) <= DateIndex(g.sensing)
                   /\ DateIndex(g.sensing) <= DateIndex(c.end)}

\* C8: _validateInput passes if and only if the directory holds a granule of
\* the tile, one of them is dated within [start, end] (both inclusive), and
\* every granule dated within the range offers every required resolution;
\* granules outside the range never make it fail.
C8_ValidateInputIff ==
    (call.fn = "_validateInput" /\ ret # NoRet) =>
        ((ret.kind = "value") <=>
            /\ \E g \in call.dir : g.tile = call.tile
            /\ OfTileInRange(call) # {}
            /\ \A g \in OfTileInRange(call) : RequiredDirs(call.resolution) \subseteq g.resdirs)

\* A directory where all three conditions are decided by the granules: one in
\* range on the inclusive bound with the resolutions, one out of range without.
C8_Witness ==
    /\ call.fn = "_validateInput" /\ ret.kind = "value"
    /\ \E g \in call.dir : g.tile = call.tile /\ g.sensing = call.end /\ g.sensing = call.start
    /\ \E g \in call.dir : /\ g.tile = call.tile /\ g.resdirs = {}
                           /\ DateIndex(g.sensing) > DateIndex(call.end)

-----------------------------------------------------------------------------
(* The L3_GIPP.xml settings file and _setGipp *)

\* The elements of L3_GIPP.xml: the five _setGipp sets, and two it does not.
TargetDirectory == "Common_Section/Target_Directory"
MinTime == "L3_Synthesis/Min_Time"
MaxTime == "L3_Synthesis/Max_Time"
TileFilter == "L3_Synthesis/Tile_Filter"
AlgorithmElt == "L3_Synthesis/Algorithm"
LogLevel == "Common_Section/Log_Level"
CirrusRemoval == "L3_Synthesis/Cirrus_Removal"
PatchedElements == {TargetDirectory, MinTime, MaxTime, TileFilter, AlgorithmElt}
GippElements == PatchedElements \cup {LogLevel, CirrusRemoval}

Algorithms == {"MOST_RECENT", "TEMP_HOMOGENEITY", "RADIOMETRIC_QUALITY", "AVERAGE"}

\* An XML tree: the text of each element. The exemplar of the repository's cfg/.
ExemplarTree(log, cirrus) ==
    [e \in GippElements |->
        IF e = TargetDirectory THEN <<"D", "E", "F", "A", "U", "L", "T">>
        ELSE IF e = MinTime THEN <<"2", "0", "1", "5">>
        ELSE IF e = MaxTime THEN <<"2", "0", "1", "6">>
        ELSE IF e = TileFilter THEN <<"*">>
        ELSE IF e = AlgorithmElt THEN "TEMP_HOMOGENEITY"
        ELSE IF e = LogLevel THEN log
        ELSE cirrus]
NoFile == [exists |-> FALSE, tree |-> ExemplarTree("", "")]
File(tree) == [exists |-> TRUE, tree |-> tree]

\* (mutant) output_dir + '/': a / is added even after a trailing /
JoinEmptyAlwaysAppends(path) == Append(path, "/")

\* os.path.join(path, ''): a trailing / is added unless there is one.
JoinEmpty(path) ==
    IF path = <<>> \/ path[Len(path)] = "/" THEN path ELSE Append(path, "/")

\* '%s-%s-%sT00:00:00Z'%(start[:4], start[4:6], start[6:]) and the end's 23:59:59Z
TimeText(date, clock) ==
    SubSeq(date, 1, 4) \o <<"-">> \o SubSeq(date, 5, 6) \o <<"-">>
        \o SubSeq(date, 7, Len(date)) \o <<"T">> \o clock \o <<"Z">>
Midnight == <<"0", "0", ":", "0", "0", ":", "0", "0">>
LastSecond == <<"2", "3", ":", "5", "9", ":", "5", "9">>

\* Lines 185-204: the tree read from the exemplar with the five options set.
PatchTree(tree, tile, output_dir, start, end, algorithm) ==
    [e \in GippElements |->
        IF e = TargetDirectory THEN JoinEmpty(output_dir)
        ELSE IF e = MinTime THEN TimeText(start, Midnight)
        ELSE IF e = MaxTime THEN TimeText(end, LastSecond)
        ELSE IF e = TileFilter THEN <<"T">> \o tile
        ELSE IF e = AlgorithmElt THEN algorithm
        ELSE tree[e]]

\* Lines 179-182 and 210: the assertion that fails, in the order of the code,
\* the IOError of tree.write when ~/sen2three/cfg is missing, or "ok".
SetGippOutcome(exemplar, outDirExists, cfgDirExists, algorithm) ==
    IF ~exemplar.exists THEN "assert_isfile"
    ELSE IF ~outDirExists THEN "assert_isdir"
    ELSE IF algorithm \notin Algorithms THEN "assert_algorithm"
    ELSE IF ~cfgDirExists THEN "IOError"
    ELSE "ok"

\* _setGipp: the files after the call. Only ~/sen2three/cfg/L3_GIPP.xml is written.
_setGipp(d, tile, output_dir, start, end, algorithm) ==
    [d EXCEPT !.gipp =
        File(PatchTree(d.exemplar.tree, tile, output_dir, start, end, algorithm))]

OutDirNoSlash == <<"/", "o">>
OutDirSlash == <<"/", "o", "/">>

\* The files of a run: the exemplar and the settings file of sen2three, the
\* level-3A products (tile, start) of the output directory and of the current
\* directory, the number of files of each band of the product, and the
\* resolutions whose directory holds a .database.h5.
GippDisk(exemplar, gipp) ==
    [exemplar |-> exemplar, gipp |-> gipp, safes |-> {}, cwdSafes |-> {},
     bands |-> <<>>, h5 |-> {}]

InitGipp ==
    /\ call \in [fn : {"_setGipp"}, tile : {Tile36KWA},
                 output_dir : {OutDirNoSlash, OutDirSlash},
                 start : {DateList[1], DateList[2]}, end : {DateList[4]},
                 algorithm : Algorithms \cup {"MEDIAN"}]
    /\ ret = NoRet
    /\ env \in [cwdIsOut : {TRUE}, outDirExists : BOOLEAN, cfgDirExists : BOOLEAN]
    /\ disk \in {GippDisk(x, g) :
                    x \in {NoFile, File(ExemplarTree("INFO", "FALSE")),
                           File(ExemplarTree("DEBUG", "TRUE"))},
                    g \in {NoFile, File(ExemplarTree("NONE", "FALSE"))}}
    /\ IdleScript /\ IdleSig /\ IdleInst

SetGippCall ==
    /\ call.fn = "_setGipp" /\ ret = NoRet
    /\ LET o == SetGippOutcome(disk.exemplar, env.outDirExists, env.cfgDirExists,
                               call.algorithm)
       IN  IF o = "ok"
           THEN /\ disk' = _setGipp(disk, call.tile, call.output_dir, call.start,
                                    call.end, call.algorithm)
                /\ ret' = [kind |-> "value", value |-> "gipp_file"]
           ELSE /\ disk' = disk
                /\ ret' = [kind |-> "raise", value |-> o]
    /\ hist' = <<disk>>
    /\ UNCHANGED <<call, argv, env, pc, idx, loc, child, exc, out, sig, inst>>

NextGipp == SetGippCall
SpecGipp == InitGipp /\ [][NextGipp]_vars

\* The text of a time element read back: its date and its clock.
TimeDate(t) == [year |-> ParseInt(SubSeq(t, 1, 4)), month |-> ParseInt(SubSeq(t, 6, 7)),
                day |-> ParseInt(SubSeq(t, 9, 10))]
TimeWellFormed(t, clock) ==
    /\ Len(t) = 20 /\ t[5] = "-" /\ t[8] = "-" /\ t[11] = "T" /\ t[20] = "Z"
    /\ SubSeq(t, 12, 19) = clock

\* C9: with one of the four algorithms, the exemplar and the output directory
\* present, the file _setGipp writes has Target_Directory = the output directory
\* with a trailing /, Min_Time = start at 00:00:00Z, Max_Time = end at 23:59:59Z,
\* Tile_Filter = T<tile>, Algorithm = the name given, every other element as in
\* the exemplar, and the exemplar is not modified; with another algorithm name,
\* no exemplar or no output directory it raises and writes nothing.
C9_SetGippFrame ==
    (call.fn = "_setGipp" /\ ret # NoRet) =>
        LET before == hist[1]
            t == disk.gipp.tree
        IN  /\ disk.exemplar = before.exemplar
            /\ (call.algorithm \notin Algorithms \/ ~before.exemplar.exists \/ ~env.outDirExists)
                  => (ret.kind = "raise" /\ disk = before)
            /\ ret.kind = "raise" => disk = before
            /\ (/\ call.algorithm \in Algorithms /\ before.exemplar.exists
                /\ env.outDirExists /\ env.cfgDirExists) => ret.kind = "value"
            /\ ret.kind = "value" =>
                  /\ disk.gipp.exists
                  /\ t[TargetDirectory] = OutDirSlash
                  /\ TimeWellFormed(t[MinTime], Midnight)
                  /\ TimeDate(t[MinTime]) = strptime(call.start)
                  /\ TimeWellFormed(t[MaxTime], LastSecond)
                  /\ TimeDate(t[MaxTime]) = strptime(call.end)
                  /\ Head(t[TileFilter]) = "T" /\ Tail(t[TileFilter]) = call.tile
                  /\ t[AlgorithmElt] = call.algorithm
                  /\ \A e \in GippElements \ PatchedElements : t[e] = before.exemplar.tree[e]
                  /\ [disk EXCEPT !.gipp = before.gipp] = before

\* A settings file was written over an older one, from an exemplar whose other
\* elements differ from the older file's, for an output directory given
\* without its trailing /.
C9_Witness ==
    /\ call.fn = "_setGipp" /\ ret.kind = "value"
    /\ call.output_dir = OutDirNoSlash /\ call.algorithm = "AVERAGE"
    /\ hist[1].gipp.exists
    /\ disk.gipp.tree[LogLevel] = "DEBUG" /\ hist[1].gipp.tree[LogLevel] = "NONE"

-----------------------------------------------------------------------------
(* The level-3A product and testCompletion *)

Resolutions == {0, 10, 20, 60}
Bands(res) ==
    IF res = 10 THEN {"B02", "B03", "B04", "B08", "TCI", "SCL"}
    ELSE IF res = 20 THEN {"B02", "B03", "B04", "B05", "B06", "B07", "B8A", "B11",
                           "B12", "TCI", "SCL"}
    ELSE {"B01", "B02", "B03", "B04", "B05", "B06", "B07", "B8A", "B09", "B11",
          "B12", "TCI", "SCL"}
BandKeys == {<<r, b>> : r \in {10}, b \in Bands(10)}
            \cup {<<r, b>> : r \in {20}, b \in Bands(20)}
            \cup {<<r, b>> : r \in {60}, b \in Bands(60)}

\* The number of .jp2 files of each band: one of each band of the resolutions
\* in rs, none of the others.
BandsOf(rs) == [k \in BandKeys |-> IF k[1] \in rs THEN 1 ELSE 0]
NoBands == BandsOf({})

\* glob of getL3AFile's pattern S2?_MSIL03_*_T<tile>_<start>T000000.SAFE in a
\* directory listing: the products of that tile and start.
GlobSafe(listing, tile, start) == {k \in listing : k = <<tile, start>>}

\* Line 307: glob.glob(L3_file), a relative pattern, lists the current directory.
CwdListing(d, e) == IF e.cwdIsOut THEN d.safes ELSE d.cwdSafes

\* Lines 310, 317: the files output_dir/L3_file/GRANULE/*/IMG_DATA/R<res>m/
\* L03_T<tile>_*_<band>_<res>m.jp2
GlobBand(d, tile, start, res, band) ==
    IF GlobSafe(d.safes, tile, start) = {} THEN 0 ELSE d.bands[<<res, band>>]

TestedResolutions(resolution) == {r \in {10, 20, 60} : resolution = 0 \/ resolution = r}

\* testCompletion: the assertion that fails, or the boolean returned.
testCompletion(d, e, tile, start, resolution) ==
    IF resolution \notin Resolutions THEN [kind |-> "raise", value |-> "assert_resolution"]
    ELSE IF ~_validateTile(tile) THEN [kind |-> "raise", value |-> "assert_tile"]
    ELSE LET file_creation_failure ==
                 Cardinality(GlobSafe(CwdListing(d, e), tile, start)) = 0
             band_creation_failure ==
                 \E r \in TestedResolutions(resolution) : \E b \in Bands(r) :
                     ~(GlobBand(d, tile, start, r, b) = 1)
         IN  [kind |-> "value",
              value |-> (file_creation_failure \/ band_creation_failure) = FALSE]

\* The most bands of a product that have no file, or two.
MaxDefects == 1

RECURSIVE Defective(_, _)
Defective(tables, n) ==
    IF n = 0 THEN tables
    ELSE Defective(tables, n - 1)
         \cup {[t EXCEPT ![k] = c] : t \in Defective(tables, n - 1), k \in BandKeys, c \in {0, 2}}

ProductKey == <<Tile36KWA, DateList[2]>>

InitCompletion ==
    /\ call \in [fn : {"testCompletion"}, tile : {Tile36KWA}, start : {DateList[2]},
                 resolution : Resolutions]
    /\ ret = NoRet
    /\ env \in [cwdIsOut : BOOLEAN, outDirExists : {TRUE}, cfgDirExists : {TRUE}]
    /\ \E present \in BOOLEAN, incwd \in BOOLEAN :
       \E t \in (IF present THEN Defective({BandsOf(rs) : rs \in SUBSET {10, 20, 60}}, MaxDefects)
                 ELSE {NoBands}) :
          /\ ~env.cwdIsOut \/ ~incwd
          /\ disk = [exemplar |-> NoFile, gipp |-> NoFile,
                     safes |-> IF present THEN {ProductKey} ELSE {},
                     cwdSafes |-> IF incwd THEN {ProductKey} ELSE {},
                     bands |-> t, h5 |-> {}]
    /\ IdleScript /\ IdleSig /\ IdleInst

TestCompletionCall ==
    /\ call.fn = "testCompletion" /\ ret = NoRet
    /\ ret' = testCompletion(disk, env, call.tile, call.start, call.resolution)
    /\ UNCHANGED <<call, argv, env, disk, pc, idx, loc, child, exc, out, hist, sig, inst>>

NextCompletion == TestCompletionCall
SpecCompletion == InitCompletion /\ [][NextCompletion]_vars

\* C4: testCompletion returns True if and only if a level-3A product of the
\* tile and start exists in the output directory (the current directory or
\* not) and every expected band of every resolution under test has exactly
\* one file.
C4_CompletionIff ==
    (call.fn = "testCompletion" /\ ret.kind = "value") =>
        (ret.value <=>
            /\ <<call.tile, call.start>> \in disk.safes
            /\ \A k \in BandKeys :
                  (call.resolution = 0 \/ call.resolution = k[1]) => disk.bands[k] = 1)

-----------------------------------------------------------------------------
(* The script: __main__, main, processToL3A, _runCommand and L3_Process *)

\* The most input directories on the command line.
MaxDirs == 3

TTile36KWA == <<"T">> \o Tile36KWA
TTTile36KWA == <<"T", "T">> \o Tile36KWA
TileArgs == {Tile36KWA, TTile36KWA, TTTile36KWA, Append(Tile36KWA, NL), <<"3", "K", "W", "A">>}

\* The input directories of a run: granules of the tile within the dates with
\* every resolution, with the 10 m resolution only, before the dates, and none.
InputDirs ==
    [good |-> {[tile |-> Tile36KWA, sensing |-> DateList[3], resdirs |-> {R10m, R20m, R60m}],
               [tile |-> Tile36KWA, sensing |-> DateList[5], resdirs |-> {}]},
     only10 |-> {[tile |-> Tile36KWA, sensing |-> DateList[2], resdirs |-> {R10m}]},
     old |-> {[tile |-> Tile36KWA, sensing |-> DateList[1], resdirs |-> {R10m, R20m, R60m}]},
     other |-> {[tile |-> Tile36KWB, sensing |-> DateList[3], resdirs |-> {R10m, R20m, R60m}]}]
DirNames == {"good", "only10", "old", "other"}

RECURSIVE SeqsUpTo(_, _)
SeqsUpTo(S, n) ==
    IF n = 0 THEN {<<>>}
    ELSE SeqsUpTo(S, n - 1)
         \cup {Append(q, x) : q \in {r \in SeqsUpTo(S, n - 1) : Len(r) = n - 1}, x \in S}

NoChild == [state |-> "none", code |-> 0, utf8 |-> TRUE, sigints |-> 0, cfg |-> NoFile,
            h5 |-> {}]
NoLocals == [tile |-> <<>>, entry |-> <<>>, p |-> FALSE, drained |-> FALSE,
             text |-> TRUE, pending |-> NoExc]
SigStart == [handler |-> "default_int_handler", log |-> <<>>]

Init ==
    /\ IdleCall /\ IdleInst
    /\ argv \in [tile : TileArgs, dirs : SeqsUpTo(DirNames, MaxDirs) \ {<<>>},
                 output_dir : {OutDirNoSlash}, start : {DateList[2]}, end : {DateList[4]},
                 algorithm : {"TEMP_HOMOGENEITY", "MEDIAN"}, resolution : {0, 10, 30},
                 verbose : BOOLEAN]
    /\ env \in [cwdIsOut : BOOLEAN, outDirExists : {TRUE}, cfgDirExists : {TRUE}]
    /\ \E old \in BOOLEAN :
          disk = [exemplar |-> File(ExemplarTree("INFO", "FALSE")), gipp |-> NoFile,
                  safes |-> IF old THEN {<<Tile36KWA, argv.start>>} ELSE {},
                  cwdSafes |-> {},
                  bands |-> IF old THEN BandsOf({10, 20, 60}) ELSE NoBands, h5 |-> {}]
    /\ pc = "loop" /\ idx = 0 /\ loc = NoLocals /\ child = NoChild
    /\ exc = NoExc /\ out = <<>> /\ hist = <<>> /\ sig = SigStart

Raise(e) == pc' = "raised" /\ exc' = e

\* Lines 392-395: the next directory of args.input_dir, or the end of the script.
MainLoop ==
    /\ pc = "loop"
    /\ IF idx < Len(argv.dirs)
       THEN /\ idx' = idx + 1 /\ pc' = "tile"
            /\ loc' = [NoLocals EXCEPT !.entry = <<disk>>]
            /\ hist' = Append(hist, <<"main", idx + 1>>)
       ELSE /\ pc' = "exit" /\ UNCHANGED <<idx, loc, hist>>
    /\ child' = NoChild
    /\ UNCHANGED <<call, ret, argv, env, disk, exc, out, sig, inst>>

\* Lines 232-237
PTile ==
    /\ pc = "tile"
    /\ loc' = [loc EXCEPT !.tile = CleanseTile(argv.tile)]
    /\ IF _validateTile(CleanseTile(argv.tile))
       THEN pc' = "resolution" /\ exc' = exc
       ELSE Raise("assert_tile")
    /\ UNCHANGED <<call, ret, argv, env, disk, idx, child, out, hist, sig, inst>>

\* Line 240
PResolution ==
    /\ pc = "resolution"
    /\ IF argv.resolution \in Resolutions
       THEN pc' = "input" /\ exc' = exc
       ELSE Raise("assert_resolution")
    /\ UNCHANGED <<call, ret, argv, env, disk, idx, loc, child, out, hist, sig, inst>>

\* Line 243
PInput ==
    /\ pc = "input"
    /\ LET r == _validateInput(loc.tile, InputDirs[argv.dirs[idx]], argv.start, argv.end,
                               argv.resolution)
       IN  IF r = "ok" THEN pc' = "output" /\ exc' = exc ELSE Raise(r)
    /\ UNCHANGED <<call, ret, argv, env, disk, idx, loc, child, out, hist, sig, inst>>

\* Lines 246-250
POutput ==
    /\ pc = "output"
    /\ IF Cardinality(GlobSafe(disk.safes, loc.tile, argv.start)) = 0
       THEN pc' = "setgipp" /\ exc' = exc
       ELSE Raise("ValueError_output_exists")
    /\ UNCHANGED <<call, ret, argv, env, disk, idx, loc, child, out, hist, sig, inst>>

\* Lines 253-256
PSetGipp ==
    /\ pc = "setgipp"
    /\ LET o == SetGippOutcome(disk.exemplar, env.outDirExists, env.cfgDirExists,
                               argv.algorithm)
       IN  IF o = "ok"
           THEN /\ disk' = _setGipp(disk, loc.tile, argv.output_dir, argv.start, argv.end,
                                    argv.algorithm)
                /\ pc' = "rc_signal" /\ exc' = exc
           ELSE disk' = disk /\ Raise(o)
    /\ UNCHANGED <<call, ret, argv, env, idx, loc, child, out, hist, sig, inst>>

\* Lines 26-36: p = None, and handler replaces Python's default_int_handler.
RcSignal ==
    /\ pc = "rc_signal"
    /\ loc' = [loc EXCEPT !.p = FALSE]
    /\ sig' = [sig EXCEPT !.handler = "handler"]
    /\ pc' = "rc_fork"
    /\ UNCHANGED <<call, ret, argv, env, disk, idx, child, exc, out, hist, inst>>

\* Line 39, inside subprocess.Popen: L3_Process is forked; it reads the settings
\* file ~/sen2three/cfg/L3_GIPP.xml as it is then (the command names no other).
RcFork ==
    /\ pc = "rc_fork"
    /\ child' = [NoChild EXCEPT !.state = "running", !.cfg = disk.gipp]
    /\ hist' = Append(hist, <<"popen", idx>>)
    /\ pc' = "rc_assign"
    /\ UNCHANGED <<call, ret, argv, env, disk, idx, loc, exc, out, sig, inst>>

\* Line 39: Popen has returned and its result is bound to p.
RcAssign ==
    /\ pc = "rc_assign"
    /\ loc' = [loc EXCEPT !.p = TRUE]
    /\ pc' = "rc_read"
    /\ UNCHANGED <<call, ret, argv, env, disk, idx, child, exc, out, hist, sig, inst>>

\* The date of a Min_Time text, as YYYYMMDD.
DateOfTime(t) == SubSeq(t, 1, 4) \o SubSeq(t, 6, 7) \o SubSeq(t, 9, 10)

\* What L3_Process may leave of a product: nothing, every band of the
\* resolutions processed, or those with the first band of one of them missing.
Products(resolution) ==
    LET rs == TestedResolutions(resolution)
    IN  {BandsOf(rs)} \cup {[BandsOf(rs) EXCEPT ![<<r, "B02">>] = 0] : r \in rs}

ExitCodes(c) == IF c.sigints > 0 THEN {0, 1, -2} ELSE {0, 1}

\* L3_Process ends: its exit status, whether what it wrote to stdout is valid
\* UTF-8, and the product it wrote under the Target_Directory of its settings.
ChildExit ==
    /\ child.state = "running"
    /\ \E code \in ExitCodes(child), u \in BOOLEAN, wrote \in BOOLEAN :
         IF wrote /\ child.cfg.exists
                  /\ child.cfg.tree[TargetDirectory] = JoinEmpty(argv.output_dir)
         THEN \E t \in Products(argv.resolution), h \in BOOLEAN :
                LET h5 == IF h THEN TestedResolutions(argv.resolution) ELSE {}
                IN  /\ disk' = [disk EXCEPT
                          !.safes = @ \cup {<<Tail(child.cfg.tree[TileFilter]),
                                              DateOfTime(child.cfg.tree[MinTime])>>},
                          !.bands = t, !.h5 = h5]
                    /\ child' = [child EXCEPT !.state = "exited", !.code = code,
                                              !.utf8 = u, !.h5 = h5]
         ELSE /\ disk' = disk
              /\ child' = [child EXCEPT !.state = "exited", !.code = code, !.utf8 = u]
    /\ UNCHANGED <<call, ret, argv, env, pc, idx, loc, exc, out, hist, sig, inst>>

\* Lines 41-43: with verbose, stdout is read line by line to its end, which
\* comes when L3_Process has ended.
RcRead ==
    /\ pc = "rc_read"
    /\ ~argv.verbose \/ child.state = "exited"
    /\ loc' = [loc EXCEPT !.drained = argv.verbose]
    /\ pc' = "rc_communicate"
    /\ UNCHANGED <<call, ret, argv, env, disk, idx, child, exc, out, hist, sig, inst>>

\* Line 45: communicate() reads what is left of both pipes and reaps the child.
RcCommunicate ==
    /\ pc = "rc_communicate"
    /\ child.state = "exited"
    /\ loc' = [loc EXCEPT !.text = IF loc.drained THEN TRUE ELSE child.utf8]
    /\ child' = [child EXCEPT !.state = "reaped"]
    /\ pc' = "rc_wait"
    /\ UNCHANGED <<call, ret, argv, env, disk, idx, exc, out, hist, sig, inst>>

\* Lines 47-48
RcWait ==
    /\ pc = "rc_wait"
    /\ loc' = [loc EXCEPT !.pending = IF child.code # 0 THEN "Exception_command_failed" ELSE @]
    /\ pc' = "rc_finally"
    /\ UNCHANGED <<call, ret, argv, env, disk, idx, child, exc, out, hist, sig, inst>>

\* Lines 50-52: the finally clause, on the way out of the try block by its end
\* or by an exception.
RcFinally ==
    /\ pc = "rc_finally"
    /\ sig' = [sig EXCEPT !.handler = "SIG_DFL"]
    /\ IF loc.pending # NoExc THEN Raise(loc.pending) ELSE pc' = "rc_return" /\ exc' = exc
    /\ UNCHANGED <<call, ret, argv, env, disk, idx, loc, child, out, hist, inst>>

\* Line 54: text.decode('utf-8') of what communicate() returned of stdout.
RcReturn ==
    /\ pc = "rc_return"
    /\ IF loc.text THEN pc' = "tidy" /\ exc' = exc ELSE Raise("UnicodeDecodeError")
    /\ UNCHANGED <<call, ret, argv, env, disk, idx, loc, child, out, hist, sig, inst>>

\* Lines 272-275
PTidy ==
    /\ pc = "tidy"
    /\ disk' = [disk EXCEPT !.h5 = IF GlobSafe(disk.safes, loc.tile, argv.start) = {}
                                   THEN @ ELSE {}]
    /\ hist' = Append(hist, <<"processed", idx>>)
    /\ pc' = "test"
    /\ UNCHANGED <<call, ret, argv, env, idx, loc, child, exc, out, sig, inst>>

\* The resolution main passes to testCompletion: none, so the default, 0.
MainTestResolution(resolution) == 0

\* Lines 361-364
MTest ==
    /\ pc = "test"
    /\ LET r == testCompletion(disk, env, argv.tile, argv.start,
                               MainTestResolution(argv.resolution))
       IN  IF r.kind = "raise"
           THEN Raise(r.value) /\ out' = out
           ELSE /\ out' = Append(out, <<IF r.value = FALSE THEN "WARNING" ELSE "completed",
                                        idx>>)
                /\ pc' = "loop" /\ exc' = exc
    /\ hist' = Append(hist, <<"tested", idx>>)
    /\ UNCHANGED <<call, ret, argv, env, disk, idx, loc, child, sig, inst>>

Next ==
    \/ MainLoop \/ PTile \/ PResolution \/ PInput \/ POutput \/ PSetGipp
    \/ RcSignal \/ RcFork \/ RcAssign \/ ChildExit \/ RcRead \/ RcCommunicate
    \/ RcWait \/ RcFinally \/ RcReturn \/ PTidy \/ MTest

Spec == Init /\ [][Next]_vars

-----------------------------------------------------------------------------
(* Properties of the script *)

Range(f) == {f[i] : i \in DOMAIN f}
Ended == pc \in {"exit", "raised"}
InProcessToL3A == pc \in {"tile", "resolution", "input", "output", "setgipp"}
ValidationErrors ==
    {"assert_tile", "assert_resolution", "assert_infiles", "assert_dates",
     "assert_file_resolution", "ValueError_output_exists"}

\* The tile without the one leading T the documentation allows.
PlainTile(t) == IF IsTTileFormat(t) THEN Tail(t) ELSE t

\* The validation failures C1 lists, for the directory main is working on,
\* stated on the arguments and the files as they were when the call began.
ValidationFailure ==
    LET tile == PlainTile(argv.tile)
        c == [dir |-> InputDirs[argv.dirs[idx]], tile |-> tile, start |-> argv.start,
              end |-> argv.end]
    IN  \/ ~(IsTileFormat(argv.tile) \/ IsTTileFormat(argv.tile))
        \/ argv.resolution \notin {0, 10, 20, 60}
        \/ ~(\E g \in c.dir : g.tile = tile)
        \/ OfTileInRange(c) = {}
        \/ \E g \in OfTileInRange(c) : ~(RequiredDirs(argv.resolution) \subseteq g.resdirs)
        \/ <<tile, argv.start>> \in loc.entry[1].safes

\* C1: whenever one of the validation failures holds, processToL3A raises
\* before the settings file is written and before L3_Process is launched, and
\* no file is created, modified or removed.
C1_ValidationFailureRaisesFirst ==
    (idx >= 1 /\ pc \notin {"loop", "exit"} /\ ValidationFailure) =>
        /\ disk = loc.entry[1]
        /\ child.state = "none"
        /\ pc \in {"tile", "resolution", "input", "output", "raised"}
        /\ pc = "raised" => exc \in ValidationErrors

\* The part of C1 that is about the order of the code: a call that ended in one
\* of the validation errors wrote no settings file, launched nothing and left
\* every file as it was.
ValidationErrorLeavesNoTrace ==
    (pc = "raised" /\ exc \in ValidationErrors /\ hist[Len(hist)] = <<"main", idx>>) =>
        disk = loc.entry[1] /\ child.state = "none"

\* C3: with a valid tile written T##XXX, main runs the processing and then the
\* completion check without the check raising, and testCompletion returns for
\* T##XXX what it returns for ##XXX.
C3_CompletionAcceptsTTile ==
    /\ (IsTTileFormat(argv.tile) /\ hist # <<>> /\ hist[Len(hist)] = <<"tested", idx>>)
          => pc # "raised"
    /\ (IsTTileFormat(argv.tile) /\ hist # <<>> /\ hist[Len(hist)] = <<"tested", idx>>) =>
          testCompletion(disk, env, argv.tile, argv.start, 0)
              = testCompletion(disk, env, PlainTile(argv.tile), argv.start, 0)

\* C5: when L3_Process exits with a non-zero status, _runCommand raises,
\* no .database.h5 is removed and main neither checks completion nor prints;
\* when it exits with status zero, _runCommand returns normally.
C5_FailureSurfaced ==
    /\ (child.state = "reaped" /\ child.code # 0 /\ pc \notin {"rc_wait", "rc_finally"})
          => /\ pc = "raised" /\ exc = "Exception_command_failed"
             /\ disk.h5 = child.h5
             /\ <<"tested", idx>> \notin Range(hist)
             /\ \A i \in 1..Len(out) : out[i][2] # idx
    /\ (child.state = "reaped" /\ child.code = 0 /\ pc = "raised")
          => exc \notin {"Exception_command_failed", "UnicodeDecodeError"}

\* C10: the directories of the command line are processed in series: main is
\* run once for each, in the order given, and L3_Process is not started for a
\* directory before the processing and the completion check of the one before
\* have finished. Stated for a command line whose directories all hold valid
\* input and whose first directory was reported as completed.
C10_EveryDirectoryInSeries ==
    /\ \A n \in 1..Len(hist) :
          (hist[n][1] = "popen" /\ hist[n][2] > 1)
              => \E m \in 1..(n - 1) : hist[m] = <<"tested", hist[n][2] - 1>>
    /\ (/\ Ended /\ argv.dirs \in Seq({"good"})
        /\ out # <<>> /\ out[1] = <<"completed", 1>>)
          => \A i \in 1..Len(argv.dirs) : <<"main", i>> \in Range(hist)

\* C11: main's completion check covers the resolution requested. When main was
\* run with a single resolution of 10, 20 or 60 m, L3_Process exited with
\* status 0 and left, in the output directory, the product with exactly one
\* file of every band of that resolution and none of the others, main prints
\* that processing completed and not the warning.  (The tile is given without
\* a T and the current directory is the output directory, so that neither the
\* tile assertion nor the relative glob of testCompletion is in play.)
C11_RequestedResolutionChecked ==
    (/\ pc = "loop" /\ idx > 0
     /\ out # <<>> /\ out[Len(out)][2] = idx
     /\ argv.resolution \in {10, 20, 60}
     /\ IsTileFormat(argv.tile) /\ env.cwdIsOut
     /\ child.state = "reaped" /\ child.code = 0
     /\ GlobSafe(disk.safes, argv.tile, argv.start) # {}
     /\ disk.bands = BandsOf({argv.resolution}))
        => out[Len(out)][1] = "completed"

-----------------------------------------------------------------------------
(* SIGINT during _runCommand *)

\* The most SIGINTs sent to the wrapper during one run.
MaxSigint == 2

RcStages == {"rc_signal", "rc_fork", "rc_assign", "rc_read", "rc_communicate",
             "rc_wait", "rc_finally", "rc_return"}

\* What a SIGINT does, by the handler installed (lines 30-36, 52): Python's
\* default_int_handler raises KeyboardInterrupt; handler sends the signal on
\* with os.kill(p.pid, SIGINT) when p is bound, which fails with OSError once
\* the child has been reaped, and raises KeyboardInterrupt when p is None; under
\* SIG_DFL the signal ends the wrapper.
SigintResult(handler, p, childState) ==
    IF handler = "default_int_handler" THEN "KeyboardInterrupt"
    ELSE IF handler = "SIG_DFL" THEN "killed"
    ELSE IF ~p THEN "KeyboardInterrupt"
    ELSE IF childState = "reaped" THEN "OSError"
    ELSE "forwarded"

\* A SIGINT reaches the wrapper while it is in _runCommand.
Sigint ==
    /\ pc \in RcStages
    /\ Len(sig.log) < MaxSigint
    /\ LET r == SigintResult(sig.handler, loc.p, child.state)
       IN  /\ sig' = [sig EXCEPT !.log = Append(@, [at |-> pc, child |-> child.state,
                                                    handler |-> sig.handler, result |-> r])]
           /\ child' = [child EXCEPT !.sigints = IF r = "forwarded" THEN @ + 1 ELSE @]
           /\ loc' = [loc EXCEPT !.pending = IF r \in {"KeyboardInterrupt", "OSError"}
                                             THEN r ELSE @]
           /\ pc' = IF r \in {"KeyboardInterrupt", "OSError"} THEN "rc_finally"
                    ELSE IF r = "killed" THEN "killed" ELSE pc
    /\ UNCHANGED <<call, ret, argv, env, disk, idx, exc, out, hist, inst>>

\* One run of the script on one valid directory, with SIGINTs.
InitSignal ==
    /\ Init
    /\ argv.tile = Tile36KWA /\ argv.dirs = <<"good">> /\ argv.resolution = 0
    /\ argv.algorithm = "TEMP_HOMOGENEITY"
    /\ env.cwdIsOut /\ disk.safes = {}

NextSignal == Next \/ Sigint
SpecSignal == InitSignal /\ [][NextSignal]_vars

\* C6: every SIGINT received while the child process exists is delivered to
\* the child and raises nothing in the wrapper; one received after the handler
\* is registered and before the child is created raises KeyboardInterrupt; no
\* SIGINT received during _runCommand is lost.
C6_SigintForwarded ==
    \A i \in 1..Len(sig.log) :
        LET e == sig.log[i]
        IN  /\ e.child \in {"running", "exited"} => e.result = "forwarded"
            /\ (e.child = "none" /\ e.handler = "handler") => e.result = "KeyboardInterrupt"
            /\ e.result \in {"forwarded", "KeyboardInterrupt"}

-----------------------------------------------------------------------------
(* Concurrent instances of processToL3A of one user *)

\* The number of instances running at once.
Instances == 2

OutDirOther == <<"/", "p">>
InstanceOptions ==
    [tile : {Tile36KWA, Tile36KWB}, output_dir : {OutDirNoSlash, OutDirOther},
     start : {DateList[2]}, end : {DateList[4]},
     algorithm : {"TEMP_HOMOGENEITY", "AVERAGE"}]

InitConc ==
    /\ inst \in [1..Instances ->
                    [pc : {"setgipp"}, opts : InstanceOptions, wrote : {NoFile},
                     cfg : {NoFile}]]
    /\ \A i \in 1..Instances : \A j \in 1..Instances : i # j => inst[i].opts # inst[j].opts
    /\ disk = GippDisk(File(ExemplarTree("INFO", "FALSE")), NoFile)
    /\ env = [cwdIsOut |-> TRUE, outDirExists |-> TRUE, cfgDirExists |-> TRUE]
    /\ IdleCall /\ IdleScript /\ IdleSig

\* Lines 253-256 of instance i: _setGipp writes ~/sen2three/cfg/L3_GIPP.xml, the
\* one path of lines 207-210 whatever the instance.
ISetGipp(i) ==
    /\ inst[i].pc = "setgipp"
    /\ disk' = _setGipp(disk, inst[i].opts.tile, inst[i].opts.output_dir,
                        inst[i].opts.start, inst[i].opts.end, inst[i].opts.algorithm)
    /\ inst' = [inst EXCEPT ![i].pc = "popen", ![i].wrote = disk'.gipp]
    /\ UNCHANGED <<call, ret, argv, env, pc, idx, loc, child, exc, out, hist, sig>>

\* Lines 259-269, 39 of instance i: L3_Process <input_dir> --clean is started;
\* the command does not name the settings file.
IPopen(i) ==
    /\ inst[i].pc = "popen"
    /\ inst' = [inst EXCEPT ![i].pc = "started"]
    /\ UNCHANGED <<call, ret, argv, env, disk, pc, idx, loc, child, exc, out, hist, sig>>

\* The L3_Process of instance i reads its settings file.
IChildRead(i) ==
    /\ inst[i].pc = "started"
    /\ inst' = [inst EXCEPT ![i].pc = "running", ![i].cfg = disk.gipp]
    /\ UNCHANGED <<call, ret, argv, env, disk, pc, idx, loc, child, exc, out, hist, sig>>

\* The L3_Process of instance i ends and _runCommand returns.
IChildExit(i) ==
    /\ inst[i].pc = "running"
    /\ inst' = [inst EXCEPT ![i].pc = "done"]
    /\ UNCHANGED <<call, ret, argv, env, disk, pc, idx, loc, child, exc, out, hist, sig>>

NextConc ==
    \E i \in 1..Instances : ISetGipp(i) \/ IPopen(i) \/ IChildRead(i) \/ IChildExit(i)
SpecConc == InitConc /\ [][NextConc]_vars

\* C7: with instances of different options running at once, the L3_Process of
\* each reads exactly the settings its own instance wrote.
C7_OwnSettingsRead ==
    \A i \in 1..Instances :
        inst[i].pc \in {"running", "done"} => inst[i].cfg = inst[i].wrote

-----------------------------------------------------------------------------
(* _runCommand and the pipes of its child *)

\* The lines a pipe holds before a write to it blocks, and the most lines the
\* child writes to each of stdout and stderr.
PipeCapacity == 2
MaxOutput == 3

\* _runCommand called with a command whose process writes toStdout lines to
\* stdout (valid UTF-8 or not) and toStderr lines to stderr, in any order, and
\* then exits.
InitRun ==
    /\ IdleCall /\ IdleEnv /\ IdleDisk /\ IdleInst
    /\ argv \in [verbose : BOOLEAN]
    /\ child \in [state : {"none"}, toStdout : 0..MaxOutput, toStderr : 0..MaxOutput,
                  stdout : {0}, stderr : {0}, code : {0}, utf8 : BOOLEAN]
    /\ pc = "rc_signal" /\ idx = 0
    /\ loc = [p |-> FALSE, text |-> TRUE, pending |-> NoExc]
    /\ exc = NoExc /\ out = <<>> /\ hist = <<>> /\ sig = SigStart

\* Lines 26-36
RunSignal ==
    /\ pc = "rc_signal"
    /\ sig' = [sig EXCEPT !.handler = "handler"]
    /\ pc' = "rc_fork"
    /\ UNCHANGED <<call, ret, argv, env, disk, idx, loc, child, exc, out, hist, inst>>

\* Line 39: the child is started with a pipe for stdout and one for stderr.
RunPopen ==
    /\ pc = "rc_fork"
    /\ child' = [child EXCEPT !.state = "running"]
    /\ loc' = [loc EXCEPT !.p = TRUE]
    /\ pc' = "rc_read"
    /\ UNCHANGED <<call, ret, argv, env, disk, idx, exc, out, hist, sig, inst>>

\* The child writes a line to stdout, when the pipe has room.
ChildWriteStdout ==
    /\ child.state = "running"
    /\ child.toStdout > 0 /\ child.stdout < PipeCapacity
    /\ child' = [child EXCEPT !.toStdout = @ - 1, !.stdout = @ + 1]
    /\ UNCHANGED <<call, ret, argv, env, disk, pc, idx, loc, exc, out, hist, sig, inst>>

\* The child writes a line to stderr, when the pipe has room.
ChildWriteStderr ==
    /\ child.state = "running"
    /\ child.toStderr > 0 /\ child.stderr < PipeCapacity
    /\ child' = [child EXCEPT !.toStderr = @ - 1, !.stderr = @ + 1]
    /\ UNCHANGED <<call, ret, argv, env, disk, pc, idx, loc, exc, out, hist, sig, inst>>

\* The child has written everything: it exits, which closes its ends of the pipes.
ChildFinish ==
    /\ child.state = "running"
    /\ child.toStdout = 0 /\ child.toStderr = 0
    /\ \E code \in {0, 1} : child' = [child EXCEPT !.state = "exited", !.code = code]
    /\ UNCHANGED <<call, ret, argv, env, disk, pc, idx, loc, exc, out, hist, sig, inst>>

\* Lines 41-43: without verbose nothing is read here. With verbose,
\* p.stdout.readline() returns the next line of stdout and the line is
\* printed; it returns "" at the end of stdout, which ends the loop; it blocks
\* while stdout is empty and the child has it open. stderr is not read.
RunReadline ==
    /\ pc = "rc_read"
    /\ ~argv.verbose \/ child.stdout > 0 \/ child.state = "exited"
    /\ IF argv.verbose /\ child.stdout > 0
       THEN /\ child' = [child EXCEPT !.stdout = @ - 1]
            /\ out' = Append(out, "stdout_line")
            /\ pc' = pc
       ELSE UNCHANGED <<child, out>> /\ pc' = "rc_communicate"
    /\ UNCHANGED <<call, ret, argv, env, disk, idx, loc, exc, hist, sig, inst>>

\* Line 45: communicate() reads what there is in both pipes, until both are
\* at their end, and then waits for the child.
RunCommunicate ==
    /\ pc = "rc_communicate"
    /\ child.stdout > 0 \/ child.stderr > 0 \/ child.state = "exited"
    /\ IF child.stdout > 0 \/ child.stderr > 0
       THEN /\ child' = [child EXCEPT !.stdout = 0, !.stderr = 0]
            /\ loc' = [loc EXCEPT !.text = IF child.stdout > 0 THEN child.utf8 ELSE @]
            /\ pc' = pc
       ELSE /\ child' = [child EXCEPT !.state = "reaped"]
            /\ loc' = loc
            /\ pc' = "rc_wait"
    /\ UNCHANGED <<call, ret, argv, env, disk, idx, exc, out, hist, sig, inst>>

\* Lines 47-48
RunWait ==
    /\ pc = "rc_wait"
    /\ loc' = [loc EXCEPT !.pending = IF child.code # 0 THEN "Exception_command_failed" ELSE @]
    /\ pc' = "rc_finally"
    /\ UNCHANGED <<call, ret, argv, env, disk, idx, child, exc, out, hist, sig, inst>>

\* Lines 50-52
RunFinally ==
    /\ pc = "rc_finally"
    /\ sig' = [sig EXCEPT !.handler = "SIG_DFL"]
    /\ IF loc.pending # NoExc THEN Raise(loc.pending) ELSE pc' = "rc_return" /\ exc' = exc
    /\ UNCHANGED <<call, ret, argv, env, disk, idx, loc, child, out, hist, inst>>

\* Line 54
RunReturn ==
    /\ pc = "rc_return"
    /\ IF loc.text THEN pc' = "returned" /\ exc' = exc ELSE Raise("UnicodeDecodeError")
    /\ UNCHANGED <<call, ret, argv, env, disk, idx, loc, child, out, hist, sig, inst>>

WrapperStep ==
    \/ RunSignal \/ RunPopen \/ RunReadline \/ RunCommunicate
    \/ RunWait \/ RunFinally \/ RunReturn
ChildStep == ChildWriteStdout \/ ChildWriteStderr \/ ChildFinish

NextRun == WrapperStep \/ ChildStep

\* The wrapper and the child are two processes of the operating system: each
\* of them runs when it is not blocked.
SpecRun == InitRun /\ [][NextRun]_vars /\ WF_vars(WrapperStep) /\ WF_vars(ChildStep)

RunEnded == pc \in {"returned", "raised"}

\* C12: the external process is run to completion. For either value of
\* verbose and any amount of output of the child on stdout and on stderr, the
\* child eventually exits and _runCommand eventually returns or raises.
C12_RunCommandTerminates == <>(child.state \in {"exited", "reaped"}) /\ <>RunEnded

\* Without verbose, _runCommand ends whatever the child writes.
QuietRunTerminates == (~argv.verbose) => <>(child.state = "reaped" /\ RunEnded)

\* With verbose, _runCommand ends when what the child writes to stderr fits
\* in the pipe.
VerboseRunTerminatesOnShortStderr ==
    (argv.verbose /\ child.toStderr <= PipeCapacity) => <>(child.state = "reaped" /\ RunEnded)

\* The wrapper waits for a line of stdout, and the child for room in the pipe
\* of stderr, which nobody reads.
RunBlocked ==
    /\ pc = "rc_read" /\ argv.verbose
    /\ child.state = "running" /\ child.stdout = 0
    /\ child.toStderr > 0 /\ child.stderr = PipeCapacity
    /\ ~ENABLED NextRun

=============================================================================
